---- MODULE Spec2Model ----
(***************************************************************************)
(* A model of the MegaNorm API (src/app.py): the text normalizer, the      *)
(* section splitter, the document discoverer, the search operation, and    *)
(* the document-detail request with its fetch-with-retry.                  *)
(*                                                                         *)
(* Text is a sequence of characters; a character is a string.  " ", "\n"   *)
(* are whitespace, "NUL" stands for U+0000 and "BOM" for U+FEFF, anything  *)
(* else is a visible character.  Cyrillic literals of the source are       *)
(* written transliterated.                                                 *)
(***************************************************************************)
EXTENDS Integers, Sequences, FiniteSets, TLC

VARIABLES
    \* clean_text, applied twice to one input
    text, cleaned, recleaned, ctPc,
    \* extract_content_sections on one parsed detail page
    hasBody, tree, sections, secPc,
    \* parse_document_list on one listing page
    page, pending, seen_urls, unique_links, documents, extractCalls, lstPc,
    \* the /api/search handler
    query, docType, sourceIdx, allDocuments, searchResponse, srchPc,
    \* the /api/document handler, MegaNormAPI.get_document_details, get_page
    docUrl, attempt, calls, pageResult, step, failedStep, detail, httpStatus, reqPc

cleanVars  == <<text, cleaned, recleaned, ctPc>>
secVars    == <<hasBody, tree, sections, secPc>>
lstVars    == <<page, pending, seen_urls, unique_links, documents, extractCalls, lstPc>>
srchVars   == <<query, docType, sourceIdx, allDocuments, searchResponse, srchPc>>
reqVars    == <<docUrl, attempt, calls, pageResult, step, failedStep, detail, httpStatus, reqPc>>
vars       == <<cleanVars, secVars, lstVars, srchVars, reqVars>>

\* The components a specification does not exercise stay at rest.
CleanIdle == text = <<>> /\ cleaned = <<>> /\ recleaned = <<>> /\ ctPc = "idle"
SecIdle   == hasBody = FALSE /\ tree = <<>> /\ sections = <<>> /\ secPc = "idle"
LstIdle   == /\ page = <<>> /\ pending = <<>> /\ seen_urls = {} /\ unique_links = <<>>
             /\ documents = <<>> /\ extractCalls = 0 /\ lstPc = "idle"
SrchIdle  == /\ query = <<>> /\ docType = "all" /\ sourceIdx = 0 /\ allDocuments = <<>>
             /\ searchResponse = [status |-> 0] /\ srchPc = "idle"
ReqIdle   == /\ docUrl = <<>> /\ attempt = 0 /\ calls = <<>> /\ pageResult = "none"
             /\ step = 0 /\ failedStep = 0 /\ detail = [status |-> "none"]
             /\ httpStatus = 0 /\ reqPc = "idle"

(***************************************************************************)
(* Sequence helpers                                                        *)
(***************************************************************************)
Range(s) == {s[i] : i \in 1..Len(s)}

Min(a, b) == IF a <= b THEN a ELSE b

\* s[:n]
Take(s, n) == SubSeq(s, 1, Min(n, Len(s)))

RECURSIVE Flatten(_)
Flatten(ss) == IF ss = <<>> THEN <<>> ELSE Head(ss) \o Flatten(Tail(ss))

\* sep.join(ss)
RECURSIVE Join(_, _)
Join(ss, sep) ==
    IF ss = <<>> THEN <<>>
    ELSE IF Len(ss) = 1 THEN ss[1]
    ELSE ss[1] \o sep \o Join(Tail(ss), sep)

\* All sequences over S of length at most n
SeqsUpTo(S, n) == UNION {[1..k -> S] : k \in 0..n}

(***************************************************************************)
(* MegaNormAPI.clean_text                                                  *)
(***************************************************************************)
NUL == "NUL"
BOM == "BOM"
Whitespace == {" ", "\n"}

\* str.strip(): leading and trailing whitespace removed (NUL and BOM are not
\* whitespace to Python)
RECURSIVE LStrip(_)
LStrip(t) == IF t # <<>> /\ Head(t) \in Whitespace THEN LStrip(Tail(t)) ELSE t

RECURSIVE RStrip(_)
RStrip(t) ==
    IF t # <<>> /\ t[Len(t)] \in Whitespace THEN RStrip(SubSeq(t, 1, Len(t) - 1)) ELSE t

Strip(t) == RStrip(LStrip(t))

\* re.sub(r'\s+', ' ', t): every maximal run of whitespace becomes one space
RECURSIVE CollapseWhitespace(_)
CollapseWhitespace(t) ==
    IF t = <<>> THEN <<>>
    ELSE IF Head(t) \in Whitespace
         THEN <<" ">> \o CollapseWhitespace(LStrip(t))
         ELSE <<Head(t)>> \o CollapseWhitespace(Tail(t))

\* t.replace(c, '')
Remove(t, c) == SelectSeq(t, LAMBDA x : x # c)

clean_text(t) ==
    IF t = <<>> THEN <<>>
    ELSE Remove(Remove(CollapseWhitespace(Strip(t)), NUL), BOM)

(***************************************************************************)
(* clean_text applied to a text, then to its own result                    *)
(***************************************************************************)
MaxLen == 3
Alphabet == {"a", " ", "\n", NUL, BOM}

CleanInit ==
    /\ text \in SeqsUpTo(Alphabet, MaxLen)
    /\ cleaned = <<>> /\ recleaned = <<>> /\ ctPc = "start"
    /\ SecIdle /\ LstIdle /\ SrchIdle /\ ReqIdle

CleanOnce ==
    /\ ctPc = "start"
    /\ cleaned' = clean_text(text)
    /\ ctPc' = "once"
    /\ UNCHANGED <<text, recleaned, secVars, lstVars, srchVars, reqVars>>

CleanTwice ==
    /\ ctPc = "once"
    /\ recleaned' = clean_text(cleaned)
    /\ ctPc' = "twice"
    /\ UNCHANGED <<text, cleaned, secVars, lstVars, srchVars, reqVars>>

CleanNext == CleanOnce \/ CleanTwice

CleanSpec == CleanInit /\ [][CleanNext]_vars

\* No leading or trailing whitespace, no two whitespace characters in a
\* row, no NUL and no BOM.
IsNormalized(t) ==
    /\ t # <<>> => (t[1] \notin Whitespace /\ t[Len(t)] \notin Whitespace)
    /\ \A i \in 1..(Len(t) - 1) : ~(t[i] \in Whitespace /\ t[i + 1] \in Whitespace)
    /\ NUL \notin Range(t) /\ BOM \notin Range(t)

\* C4: clean_text is idempotent, and its result is trimmed, single-spaced
\* and free of NUL and BOM, for every input text.
CleanTextIdempotent ==
    ctPc = "twice" => (recleaned = cleaned /\ IsNormalized(cleaned))

(***************************************************************************)
(* The parsed detail page.  tree[i] is node i of the BeautifulSoup tree in *)
(* document (pre-)order: a tag [name, cls, parent] or a NavigableString    *)
(* [name = "#text", str, parent].  Node 0 is the root: <body> when the     *)
(* page has one, the BeautifulSoup document otherwise.                     *)
(***************************************************************************)
TextName == "#text"
NoElement == -1

\* The noise list cut down to the two kinds whose text is never prose
NoiseNamesScriptsOnly == {"script", "style"}

NoiseNames    == {"script", "style", "nav", "header", "footer", "aside"}
HeadingNames  == {"h1", "h2", "h3", "h4", "h5", "h6"}
ScriptParents == {"script", "style"}

\* A selector starting with "." matches the class, any other the tag name.
ContentSelectors ==
    <<".document-content", ".doc-content", ".main-content", "main", ".content", "article">>

IntroTitle   == <<"Vvedenie">>
GenericTitle == <<"Soderzhanie dokumenta">>

Indices(t) == [i \in 1..Len(t) |-> i]

RECURSIVE AncOrSelf(_, _)
AncOrSelf(t, i) == IF i = 0 THEN {0} ELSE {i} \cup AncOrSelf(t, t[i].parent)

RootName(hb) == IF hb THEN "body" ELSE "[document]"
NameOf(t, hb, i) == IF i = 0 THEN RootName(hb) ELSE t[i].name

\* for element in soup([...]): element.decompose()
\* The nodes the loop destroys: every noise element with its whole subtree.
Decompose(t) ==
    {i \in 1..Len(t) : \E a \in AncOrSelf(t, i) \ {0} : t[a].name \in NoiseNames}

\* element.contents and element.descendants, over the nodes still in the tree
Children(t, alive, r) ==
    SelectSeq(Indices(t), LAMBDA i : i \in alive /\ t[i].parent = r)

Descendants(t, alive, r) ==
    SelectSeq(Indices(t), LAMBDA i : i \in alive /\ i # r /\ r \in AncOrSelf(t, i))

\* element.string: <<s>> when it is the string s, <<>> when it is None.
\* A NavigableString is its own .string; a tag with exactly one child has
\* that child's .string; any other tag has none.
RECURSIVE StringOf(_, _, _)
StringOf(t, alive, i) ==
    IF t[i].name = TextName THEN <<t[i].str>>
    ELSE LET ch == Children(t, alive, i)
         IN  IF Len(ch) = 1 THEN StringOf(t, alive, ch[1]) ELSE <<>>

\* The strings under r, in document order
Strings(t, alive, r) ==
    LET leaves == SelectSeq(Descendants(t, alive, r), LAMBDA i : t[i].name = TextName)
    IN  [k \in 1..Len(leaves) |-> t[leaves[k]].str]

\* element.get_text() and element.get_text(separator=' ')
get_text(t, alive, r) == Flatten(Strings(t, alive, r))
get_text_sep(t, alive, r) == Join(Strings(t, alive, r), <<" ">>)

Matches(node, sel) ==
    /\ node.name # TextName
    /\ IF sel \in {".document-content", ".doc-content", ".main-content", ".content"}
       THEN node.cls = sel
       ELSE node.name = sel

\* soup.select_one(sel): the first match in document order, or None
select_one(t, alive, sel) ==
    LET hits == {i \in alive : Matches(t[i], sel)}
    IN  IF hits = {} THEN NoElement ELSE CHOOSE i \in hits : \A j \in hits : i <= j

\* Lines 230-238: the first selector that matches wins; else soup.find('body')
MainContent(t, alive, hb) ==
    LET hit == {k \in 1..Len(ContentSelectors) :
                    select_one(t, alive, ContentSelectors[k]) # NoElement}
    IN  IF hit # {}
        THEN select_one(t, alive, ContentSelectors[CHOOSE k \in hit : \A j \in hit : k <= j])
        ELSE IF hb THEN 0 ELSE NoElement

\* Lines 250-252 and 265-267: the section is kept when its raw content has
\* something left after str.strip()
FlushSection(cur, out) ==
    IF Strip(cur.content) # <<>>
    THEN Append(out, [title |-> cur.title, content |-> clean_text(cur.content)])
    ELSE out

\* Lines 248-262: one element of main_content.descendants
VisitElement(t, alive, hb, el, st) ==
    IF t[el].name \in HeadingNames
    THEN [cur |-> [title |-> clean_text(get_text(t, alive, el)), content |-> <<>>],
          out |-> FlushSection(st.cur, st.out)]
    ELSE LET s == StringOf(t, alive, el)
         IN  IF /\ s # <<>>
                /\ s[1] # <<>>
                /\ NameOf(t, hb, t[el].parent) \notin ScriptParents
                /\ Strip(s[1]) # <<>>
             THEN [st EXCEPT !.cur.content = @ \o Strip(s[1]) \o <<" ">>]
             ELSE st

RECURSIVE Walk(_, _, _, _, _)
Walk(t, alive, hb, ds, st) ==
    IF ds = <<>> THEN st
    ELSE Walk(t, alive, hb, Tail(ds), VisitElement(t, alive, hb, Head(ds), st))

\* Lines 244-267
HeadingSections(t, alive, hb, mc) ==
    LET st == Walk(t, alive, hb, Descendants(t, alive, mc),
                   [cur |-> [title |-> IntroTitle, content |-> <<>>], out |-> <<>>])
    IN  FlushSection(st.cur, st.out)

\* The full text taken without a separator, as get_text() is at line 256
FullTextNoSeparator(t, alive, mc) == clean_text(get_text(t, alive, mc))

\* Line 270
FullText(t, alive, mc) == clean_text(get_text_sep(t, alive, mc))

\* Lines 268-275
NoHeadingSections(t, alive, mc) ==
    LET full_text == FullText(t, alive, mc)
    IN  IF full_text # <<>>
        THEN <<[title |-> GenericTitle, content |-> full_text]>>
        ELSE <<>>

extract_content_sections(t, hb) ==
    LET alive == (1..Len(t)) \ Decompose(t)
        mc    == MainContent(t, alive, hb)
    IN  IF mc = NoElement THEN <<>>
        ELSE LET headings == SelectSeq(Descendants(t, alive, mc),
                                       LAMBDA i : t[i].name \in HeadingNames)
             IN  IF headings # <<>>
                 THEN HeadingSections(t, alive, hb, mc)
                 ELSE NoHeadingSections(t, alive, mc)

(***************************************************************************)
(* BeautifulSoup(response.text, 'html.parser') builds the tree node by     *)
(* node; extract_content_sections then runs on whatever page was parsed.   *)
(***************************************************************************)
MaxNodes == 4

\* The visible character of the string at node i: a different one per node
Letter(i) == "t" \o ToString(i)

TagKinds ==
    {[name |-> "div", cls |-> ""], [name |-> "main", cls |-> ""],
     [name |-> "h2", cls |-> ""], [name |-> "nav", cls |-> ""],
     [name |-> "script", cls |-> ""]}

\* The strings a text node may hold: a word, whitespace between tags, a NUL
TextsAt(i) == {<<Letter(i)>>, <<"\n">>, <<NUL>>}

\* The elements still open after the nodes parsed so far
OpenElements(t) ==
    IF t = <<>> THEN {0}
    ELSE {a \in AncOrSelf(t, Len(t)) : a = 0 \/ t[a].name # TextName}

SecInit ==
    /\ hasBody \in BOOLEAN
    /\ tree = <<>> /\ sections = <<>> /\ secPc = "parsing"
    /\ CleanIdle /\ LstIdle /\ SrchIdle /\ ReqIdle

ParseTag ==
    /\ secPc = "parsing" /\ Len(tree) < MaxNodes
    /\ \E k \in TagKinds, p \in OpenElements(tree) :
          tree' = Append(tree, [name |-> k.name, cls |-> k.cls, parent |-> p, str |-> <<>>])
    /\ UNCHANGED <<hasBody, sections, secPc, cleanVars, lstVars, srchVars, reqVars>>

\* The parser joins adjacent character data into one string, so a string
\* never directly follows a sibling string.
ParseText ==
    /\ secPc = "parsing" /\ Len(tree) < MaxNodes
    /\ \E p \in OpenElements(tree), s \in TextsAt(Len(tree) + 1) :
          /\ ~(tree # <<>> /\ tree[Len(tree)].name = TextName /\ tree[Len(tree)].parent = p)
          /\ tree' = Append(tree, [name |-> TextName, cls |-> "", parent |-> p, str |-> s])
    /\ UNCHANGED <<hasBody, sections, secPc, cleanVars, lstVars, srchVars, reqVars>>

ExtractContentSections ==
    /\ secPc = "parsing"
    /\ sections' = extract_content_sections(tree, hasBody)
    /\ secPc' = "done"
    /\ UNCHANGED <<hasBody, tree, cleanVars, lstVars, srchVars, reqVars>>

SecNext == ParseTag \/ ParseText \/ ExtractContentSections

SecSpec == SecInit /\ [][SecNext]_vars

(***************************************************************************)
(* What the claims say of a page, read off the tree as it was parsed       *)
(***************************************************************************)
NoiseKinds == {"script", "style", "nav", "header", "footer", "aside"}

\* Node i is a noise element or lies inside one, at any depth.
InNoise(i) == \E a \in AncOrSelf(tree, i) \ {0} : tree[a].name \in NoiseKinds

Visible == {i \in 1..Len(tree) : ~InNoise(i)}

\* Node i is a string made of one visible character of its own.
IsWord(i) == tree[i].name = TextName /\ tree[i].str = <<Letter(i)>>

\* The primary content region of the page, NoElement when it has none
Region == MainContent(tree, Visible, hasBody)

\* The visible nodes inside the region
RegionNodes ==
    LET reg == Region
    IN  {i \in Visible : i # reg /\ reg \in AncOrSelf(tree, i)}

HeadingsIn(nodes) == {i \in nodes : tree[i].name \in HeadingNames}

\* How often character c occurs in the contents of the emitted sections
Occurrences(c) ==
    Cardinality({kj \in (1..Len(sections)) \X (1..(4 * MaxNodes)) :
                    /\ kj[2] <= Len(sections[kj[1]].content)
                    /\ sections[kj[1]].content[kj[2]] = c})

\* The text of the nodes: their strings in document order, one space
\* between two of them, normalized
TextOfNodes(nodes) ==
    LET leaves == SelectSeq(Indices(tree),
                            LAMBDA i : i \in nodes /\ tree[i].name = TextName)
    IN  clean_text(Join([k \in 1..Len(leaves) |-> tree[leaves[k]].str], <<" ">>))

\* C1: after extract_content_sections no text from inside a script, style,
\* nav, header, footer or aside element appears in any section's content.
NoNoiseTextInSections ==
    secPc = "done" =>
        \A i \in 1..Len(tree) :
            (IsWord(i) /\ InNoise(i)) =>
                \A k \in 1..Len(sections) : Letter(i) \notin Range(sections[k].content)

\* C1 witness: a page with a heading and with text inside a noise element,
\* split into at least one section by the heading-driven traversal.
NoiseTextPageSplit ==
    /\ secPc = "done"
    /\ HeadingsIn(RegionNodes) # {}
    /\ \E i \in 1..Len(tree) : IsWord(i) /\ InNoise(i)
    /\ Len(sections) >= 1

\* C2 as stated: a region without headings yields exactly one section, with
\* the generic title and the region's normalized text, empty text included.
NoHeadingAlwaysOneSection ==
    secPc = "done" =>
        LET nodes == RegionNodes
        IN  (Region # NoElement /\ HeadingsIn(nodes) = {}) =>
                sections = <<[title |-> GenericTitle, content |-> TextOfNodes(nodes)]>>

\* C2 as amended: a region without headings yields exactly one section, with
\* the generic title and the region's normalized text, when that text is
\* not empty, and no section when it is empty.
NoHeadingOneSectionUnlessEmpty ==
    secPc = "done" =>
        LET nodes == RegionNodes
            txt   == TextOfNodes(nodes)
        IN  (Region # NoElement /\ HeadingsIn(nodes) = {}) =>
                IF txt # <<>>
                THEN sections = <<[title |-> GenericTitle, content |-> txt]>>
                ELSE sections = <<>>

\* C2 witness: a region without headings holding two words, emitted as the
\* one generic section.
NoHeadingTwoWords ==
    /\ secPc = "done" /\ Region # NoElement /\ HeadingsIn(RegionNodes) = {}
    /\ Len(sections) = 1
    /\ Cardinality({i \in RegionNodes : IsWord(i)}) >= 2

\* C3: in the heading-driven traversal every emitted section has a content
\* that is not empty.
EmittedSectionsNonEmpty ==
    (secPc = "done" /\ HeadingsIn(RegionNodes) # {}) =>
        \A k \in 1..Len(sections) : sections[k].content # <<>>

\* The heading whose section a string at node i belongs to: the nearest
\* heading before it in document order, 0 when there is none
PrecedingHeading(headings, i) ==
    LET hs == {h \in headings : h < i}
    IN  IF hs = {} THEN 0 ELSE CHOOSE h \in hs : \A g \in hs : g <= h

TitleFor(headings, i) ==
    IF PrecedingHeading(headings, i) = 0 THEN IntroTitle
    ELSE clean_text(get_text(tree, Visible, PrecedingHeading(headings, i)))

InHeading(i) == \E a \in AncOrSelf(tree, i) \ {0} : tree[a].name \in HeadingNames

\* C10: in the heading-driven traversal a string of the region is appended
\* exactly once, to the section of the nearest preceding heading, and the
\* text of a heading is not appended to any content.
EachLeafOnce ==
    secPc = "done" =>
        LET nodes    == RegionNodes
            headings == HeadingsIn(nodes)
        IN  headings # {} =>
                \A i \in nodes :
                    IsWord(i) =>
                        IF InHeading(i) THEN Occurrences(Letter(i)) = 0
                        ELSE /\ Occurrences(Letter(i)) = 1
                             /\ \E k \in 1..Len(sections) :
                                   /\ Letter(i) \in Range(sections[k].content)
                                   /\ sections[k].title = TitleFor(headings, i)

(***************************************************************************)
(* The document discoverer.  A listing page is the sequence of its         *)
(* elements that carry a link class or an href, in document order:         *)
(* [tag, cls, href, text].  An href is a sequence of tokens (path pieces); *)
(* <<>> is a missing or empty href.                                        *)
(***************************************************************************)
MaxCandidates == 100

base_url == "https://meganorm.ru"
PaginatorSuffix == "_0.html"

\* The substrings the code looks for, each inside the token that holds it
SubstringsOf(tok) ==
    CASE tok = "/mega_doc/"        -> {"/mega_doc/"}
      [] tok = "/gost"             -> {"/gost", "gost"}
      [] tok = "/standart"         -> {"/standart"}
      [] tok = "/federalnyj-zakon" -> {"/federalnyj-zakon", "federalnyj-zakon"}
      [] tok = "/prikaz"           -> {"/prikaz", "prikaz"}
      [] tok = "/postanovlenie"    -> {"/postanovlenie", "postanovlenie"}
      [] tok = "/snip"             -> {"/snip", "/sp"}
      [] tok = "/sp"               -> {"/sp"}
      [] OTHER                     -> {tok}

\* sub in href
Contains(href, sub) == \E i \in 1..Len(href) : sub \in SubstringsOf(href[i])

\* href.endswith('_0.html')
EndsWithPaginator(href) == href # <<>> /\ href[Len(href)] = PaginatorSuffix

doc_selectors ==
    <<"a[href*=/mega_doc/]", ".doc-link", ".document-link", "a[href*=gost]",
      "a[href*=federalnyj-zakon]", "a[href*=prikaz]", "a[href*=postanovlenie]">>

SelectorMatches(el, sel) ==
    CASE sel = "a[href*=/mega_doc/]"       -> el.tag = "a" /\ Contains(el.href, "/mega_doc/")
      [] sel = ".doc-link"                 -> el.cls = "doc-link"
      [] sel = ".document-link"            -> el.cls = "document-link"
      [] sel = "a[href*=gost]"             -> el.tag = "a" /\ Contains(el.href, "gost")
      [] sel = "a[href*=federalnyj-zakon]" -> el.tag = "a" /\ Contains(el.href, "federalnyj-zakon")
      [] sel = "a[href*=prikaz]"           -> el.tag = "a" /\ Contains(el.href, "prikaz")
      [] sel = "a[href*=postanovlenie]"    -> el.tag = "a" /\ Contains(el.href, "postanovlenie")
      [] OTHER                             -> FALSE

\* soup.select(selector): the matches in document order
select(pg, sel) == SelectSeq(pg, LAMBDA el : SelectorMatches(el, sel))

\* Lines 69-72: one pass per selector, in the order of the list
DocLinks(pg) == Flatten([k \in 1..Len(doc_selectors) |-> select(pg, doc_selectors[k])])

\* The test against seen_urls left out
NeverSeen(href, seen) == TRUE

\* Line 79: href not in seen_urls
NotSeen(href, seen) == href \notin seen

\* Line 79: the link is kept when its href is set, new, and no paginator link
KeepLink(link, seen) ==
    /\ link.href # <<>>
    /\ NotSeen(link.href, seen)
    /\ ~EndsWithPaginator(link.href)

determine_document_type(url) ==
    IF Contains(url, "/gost") \/ Contains(url, "/standart") THEN "GOST"
    ELSE IF Contains(url, "/federalnyj-zakon") THEN "Federalnyj zakon"
    ELSE IF Contains(url, "/prikaz") THEN "Prikaz"
    ELSE IF Contains(url, "/postanovlenie") THEN "Postanovlenie"
    ELSE IF Contains(url, "/snip") THEN "SNiP"
    ELSE IF Contains(url, "/sp") THEN "SP"
    ELSE "Dokument"

\* urljoin(self.base_url, href), for an href that is a path
urljoin(base, href) == <<base>> \o href

\* Lines 93-119: <<info>>, or <<>> for None.  link.get_text(strip=True) of
\* an anchor holding one string is that string stripped.
extract_document_info_from_link(link) ==
    IF link.href = <<>> THEN <<>>
    ELSE LET title == clean_text(Strip(link.text))
         IN  IF title = <<>> \/ Len(title) < 3 THEN <<>>
             ELSE <<[title        |-> title,
                     url          |-> urljoin(base_url, link.href),
                     type         |-> determine_document_type(link.href),
                     relative_url |-> link.href]>>

(***************************************************************************)
(* The listing pages tried: every page of up to MaxAnchors elements over a *)
(* pool, and long pages around the cap of 100 candidates.                  *)
(***************************************************************************)
MaxAnchors == 3
MaxExtra == 50

Anchor(tag, cls, href, txt) == [tag |-> tag, cls |-> cls, href |-> href, text |-> txt]

AnchorPool ==
    {Anchor("a", "", <<"/mega_doc/", "d1", ".html">>, <<"a", "b", "c">>),
     Anchor("a", "doc-link", <<"/mega_doc/", "d1", ".html">>, <<"x", "y", "z">>),
     Anchor("a", "", <<"/mega_doc/", "/gost", "d2", ".html">>, <<" ", "a", "b", "c", "\n">>),
     Anchor("a", "", <<"/mega_doc/", "/gost", PaginatorSuffix>>, <<"a", "b", "c">>),
     Anchor("a", "", <<"/prikaz", "d3", ".html">>, <<"a", "b", "c", "d">>),
     Anchor("a", "", <<"/postanovlenie", "d4", ".html">>, <<"a", "b">>),
     Anchor("span", "doc-link", <<>>, <<"a", "b", "c">>),
     Anchor("a", "document-link", <<"/other", "d5", ".html">>, <<"a", NUL, "b", "c">>)}

\* Element k of a long page: every dupEvery-th repeats the href before it,
\* every 5th has a title too short to keep, and with twice every href also
\* matches a second selector.
LongAnchor(k, dupEvery, twice) ==
    LET id == IF dupEvery > 0 /\ k % dupEvery = 0 THEN k - 1 ELSE k
    IN  Anchor("a", "",
               <<"/mega_doc/">> \o (IF twice THEN <<"/gost">> ELSE <<>>)
                                \o <<"d" \o ToString(id), ".html">>,
               IF k % 5 = 0 THEN <<"a", "b">> ELSE <<"a", "b", "c">>)

LongPages ==
    {[k \in 1..n |-> LongAnchor(k, d, tw)] :
        n \in {MaxCandidates - 1, MaxCandidates, MaxCandidates + 1, MaxCandidates + MaxExtra},
        d \in {0, 7}, tw \in BOOLEAN}

ListingPages == SeqsUpTo(AnchorPool, MaxAnchors) \cup LongPages

LstInit ==
    /\ page \in ListingPages
    /\ pending = <<>> /\ seen_urls = {} /\ unique_links = <<>>
    /\ documents = <<>> /\ extractCalls = 0 /\ lstPc = "called"
    /\ CleanIdle /\ SecIdle /\ SrchIdle /\ ReqIdle

\* get_page returned the page; lines 54-76: the selector passes
SelectLinks ==
    /\ lstPc = "called"
    /\ pending' = DocLinks(page)
    /\ lstPc' = "dedup"
    /\ UNCHANGED <<page, seen_urls, unique_links, documents, extractCalls,
                   cleanVars, secVars, srchVars, reqVars>>

\* get_page raised: lines 90-91 raise in turn, nothing is returned
ParseDocumentListRaises ==
    /\ lstPc = "called"
    /\ lstPc' = "raised"
    /\ UNCHANGED <<page, pending, seen_urls, unique_links, documents, extractCalls,
                   cleanVars, secVars, srchVars, reqVars>>

\* Lines 77-81: one turn of the loop over doc_links
DedupStep ==
    /\ lstPc = "dedup" /\ pending # <<>>
    /\ IF KeepLink(Head(pending), seen_urls)
       THEN /\ seen_urls' = seen_urls \cup {Head(pending).href}
            /\ unique_links' = Append(unique_links, Head(pending))
       ELSE UNCHANGED <<seen_urls, unique_links>>
    /\ pending' = Tail(pending)
    /\ UNCHANGED <<page, documents, extractCalls, lstPc,
                   cleanVars, secVars, srchVars, reqVars>>

\* Line 83: the loop over unique_links[:100] starts
DedupDone ==
    /\ lstPc = "dedup" /\ pending = <<>>
    /\ pending' = Take(unique_links, MaxCandidates)
    /\ lstPc' = "extract"
    /\ UNCHANGED <<page, seen_urls, unique_links, documents, extractCalls,
                   cleanVars, secVars, srchVars, reqVars>>

\* Lines 84-86: one turn of the loop over unique_links[:100]
ExtractStep ==
    /\ lstPc = "extract" /\ pending # <<>>
    /\ extractCalls' = extractCalls + 1
    /\ documents' = documents \o extract_document_info_from_link(Head(pending))
    /\ pending' = Tail(pending)
    /\ UNCHANGED <<page, seen_urls, unique_links, lstPc,
                   cleanVars, secVars, srchVars, reqVars>>

\* Line 88
ReturnDocuments ==
    /\ lstPc = "extract" /\ pending = <<>>
    /\ lstPc' = "returned"
    /\ UNCHANGED <<page, pending, seen_urls, unique_links, documents, extractCalls,
                   cleanVars, secVars, srchVars, reqVars>>

LstNext ==
    \/ SelectLinks \/ ParseDocumentListRaises
    \/ DedupStep \/ DedupDone \/ ExtractStep \/ ReturnDocuments

LstSpec == LstInit /\ [][LstNext]_vars

\* Where the code first meets href h: the earliest selector pass that
\* matches an element with that href, and in it the earliest such element.
FirstSeen(h) ==
    LET keys == {(s - 1) * (Len(page) + 1) + k :
                    s \in {s \in 1..7 : \E k \in 1..Len(page) :
                              page[k].href = h /\ SelectorMatches(page[k], doc_selectors[s])},
                    k \in {k \in 1..Len(page) : page[k].href = h}}
        ok   == {x \in keys :
                    LET s == (x \div (Len(page) + 1)) + 1
                        k == x % (Len(page) + 1)
                    IN  k >= 1 /\ SelectorMatches(page[k], doc_selectors[s])}
    IN  CHOOSE x \in ok : \A y \in ok : x <= y

\* C5: the summaries of one parse_document_list call have pairwise distinct
\* relative_url values, none ends with "_0.html", they come in first-seen
\* order of their href over the selector passes, and at most 100 candidates
\* are handed to extract_document_info_from_link.
ListUniqueOrderedCapped ==
    lstPc = "returned" =>
        /\ \A i, j \in 1..Len(documents) :
              i # j => documents[i].relative_url # documents[j].relative_url
        /\ \A i \in 1..Len(documents) : ~EndsWithPaginator(documents[i].relative_url)
        /\ \A i \in 1..(Len(documents) - 1) :
              FirstSeen(documents[i].relative_url) < FirstSeen(documents[i + 1].relative_url)
        /\ extractCalls <= 100
        /\ Len(documents) <= 100

\* C5 witness: a page with more than 100 distinct hrefs, some repeated and
\* each matched by two selectors, of which exactly 100 were processed.
LongPageCapped ==
    /\ lstPc = "returned"
    /\ Cardinality({page[k].href : k \in 1..Len(page)}) > 100
    /\ Len(DocLinks(page)) >= 2 * Len(page)
    /\ \E i, j \in 1..Len(page) : i # j /\ page[i].href = page[j].href
    /\ extractCalls = 100
    /\ Len(documents) >= 1

(***************************************************************************)
(* The /api/search handler                                                 *)
(***************************************************************************)
MaxResults == 100

\* str.lower(), character by character
LowerChar(c) == CASE c = "A" -> "a" [] c = "B" -> "b" [] c = "X" -> "x" [] OTHER -> c
Lower(t) == [i \in 1..Len(t) |-> LowerChar(t[i])]

\* q in t
IsSubstring(q, t) ==
    \E i \in 1..(Len(t) - Len(q) + 1) : SubSeq(t, i, i + Len(q) - 1) = q

\* t.count(q): the occurrences found scanning from the left, each search
\* resuming after the end of the last match
RECURSIVE Count(_, _)
Count(t, q) ==
    IF Len(t) < Len(q) THEN 0
    ELSE IF SubSeq(t, 1, Len(q)) = q
         THEN 1 + Count(SubSeq(t, Len(q) + 1, Len(t)), q)
         ELSE Count(Tail(t), q)

\* Lines 420-430: the listing URLs searched for a type, in dictionary order
type_keys == <<"gost", "federal-laws", "orders", "resolutions">>

SearchUrls(doc_type) ==
    IF doc_type = "all" THEN type_keys
    ELSE SelectSeq(type_keys, LAMBDA k : k = doc_type)

\* Lines 452-457
WithRelevance(doc, query_lower) ==
    [title |-> doc.title, url |-> doc.url, type |-> doc.type,
     relative_url |-> doc.relative_url,
     relevance |-> Count(Lower(doc.title), query_lower)]

Filtered(all_documents, query_lower) ==
    LET hits == SelectSeq(all_documents, LAMBDA d : IsSubstring(query_lower, Lower(d.title)))
    IN  [k \in 1..Len(hits) |-> WithRelevance(hits[k], query_lower)]

\* The sort without reverse=True: ascending relevance
RECURSIVE SortAscending(_, _)
SortAscending(docs, rels) ==
    IF rels = {} THEN <<>>
    ELSE LET r == CHOOSE x \in rels : \A y \in rels : x <= y
         IN  SelectSeq(docs, LAMBDA d : d.relevance = r) \o SortAscending(docs, rels \ {r})

\* Line 460: list.sort(key=relevance, reverse=True) is stable: the greatest
\* relevance first, documents of equal relevance in the order they had
RECURSIVE SortByRelevance(_, _)
SortByRelevance(docs, rels) ==
    IF rels = {} THEN <<>>
    ELSE LET r == CHOOSE x \in rels : \A y \in rels : x >= y
         IN  SelectSeq(docs, LAMBDA d : d.relevance = r) \o SortByRelevance(docs, rels \ {r})

\* Lines 448-471
SearchResult(all_documents, q) ==
    LET filtered_docs == Filtered(all_documents, Lower(q))
        sorted_docs   == SortByRelevance(filtered_docs,
                                         {filtered_docs[k].relevance : k \in 1..Len(filtered_docs)})
        max_results   == Min(MaxResults, Len(filtered_docs))
    IN  [status |-> 200, documents |-> Take(sorted_docs, max_results), query |-> q,
         total |-> Len(filtered_docs), showing |-> max_results]

(***************************************************************************)
(* The requests tried, and what parse_document_list may return per source  *)
(***************************************************************************)
RawQueries ==
    {<<>>, <<" ">>, <<"a">>, <<"a", "b">>, <<" ", "A", "B", "\n">>, <<"a", "a">>}

DocTypes == {"all", "gost", "orders", "unknown"}

\* The summary parse_document_list makes of a link with this title and id
Doc(title, id) ==
    extract_document_info_from_link(
        Anchor("a", "", <<"/mega_doc/", id, ".html">>, title))[1]

TitlePool ==
    <<<<"a", "b", "x">>, <<"A", "b", "x", "a", "B">>, <<"a", "b", "a", "b">>,
      <<"x", "x", "x">>, <<"a", "a", "a">>>>

\* A full listing: 100 summaries, titles taken in turn from the first three
FullListing == [k \in 1..MaxCandidates |-> Doc(TitlePool[(k % 3) + 1], "d" \o ToString(k))]

SourceResults ==
    {<<>>,
     <<Doc(TitlePool[1], "d1")>>,
     <<Doc(TitlePool[2], "d2"), Doc(TitlePool[4], "d4")>>,
     <<Doc(TitlePool[5], "d5"), Doc(TitlePool[1], "d1"), Doc(TitlePool[3], "d3")>>,
     FullListing}

SrchInit ==
    /\ query \in RawQueries /\ docType \in DocTypes
    /\ sourceIdx = 0 /\ allDocuments = <<>>
    /\ searchResponse = [status |-> 0] /\ srchPc = "request"
    /\ CleanIdle /\ SecIdle /\ LstIdle /\ ReqIdle

\* Lines 404-437: the three validation errors, each answered with 400
SearchRejects ==
    /\ srchPc = "request"
    /\ \/ Strip(query) = <<>>
       \/ Len(Strip(query)) < 2
       \/ SearchUrls(docType) = <<>>
    /\ searchResponse' = [status |-> 400]
    /\ srchPc' = "responded"
    /\ UNCHANGED <<query, docType, sourceIdx, allDocuments,
                   cleanVars, secVars, lstVars, reqVars>>

SearchAccepts ==
    /\ srchPc = "request"
    /\ Len(Strip(query)) >= 2 /\ SearchUrls(docType) # <<>>
    /\ sourceIdx' = 1
    /\ srchPc' = "fetching"
    /\ UNCHANGED <<query, docType, allDocuments, searchResponse,
                   cleanVars, secVars, lstVars, reqVars>>

\* Lines 440-443: the next source is parsed and its summaries appended
SearchSourceParsed ==
    /\ srchPc = "fetching" /\ sourceIdx <= Len(SearchUrls(docType))
    /\ \E docs \in SourceResults : allDocuments' = allDocuments \o docs
    /\ sourceIdx' = sourceIdx + 1
    /\ UNCHANGED <<query, docType, searchResponse, srchPc,
                   cleanVars, secVars, lstVars, reqVars>>

\* Lines 444-446: parse_document_list raised; the source is skipped
SearchSourceFails ==
    /\ srchPc = "fetching" /\ sourceIdx <= Len(SearchUrls(docType))
    /\ sourceIdx' = sourceIdx + 1
    /\ UNCHANGED <<query, docType, allDocuments, searchResponse, srchPc,
                   cleanVars, secVars, lstVars, reqVars>>

\* Lines 448-471
SearchResponds ==
    /\ srchPc = "fetching" /\ sourceIdx > Len(SearchUrls(docType))
    /\ searchResponse' = SearchResult(allDocuments, Strip(query))
    /\ srchPc' = "responded"
    /\ UNCHANGED <<query, docType, sourceIdx, allDocuments,
                   cleanVars, secVars, lstVars, reqVars>>

SrchNext ==
    \/ SearchRejects \/ SearchAccepts
    \/ SearchSourceParsed \/ SearchSourceFails \/ SearchResponds

SrchSpec == SrchInit /\ [][SrchNext]_vars

\* The query as compared: trimmed and lower-cased
Needle == Lower(Strip(query))

\* The positions of title t at which the query occurs, ignoring case
MatchPositions(t) ==
    {i \in 1..(Len(t) - Len(Needle) + 1) : SubSeq(Lower(t), i, i + Len(Needle) - 1) = Needle}

\* The number of non-overlapping occurrences of the query in title t: the
\* most match positions that can be chosen no two of which overlap
NonOverlapping(t) ==
    LET fits == {S \in SUBSET MatchPositions(t) :
                    \A i, j \in S : i # j => (i - j >= Len(Needle) \/ j - i >= Len(Needle))}
    IN  CHOOSE n \in 0..Len(t) :
            /\ \E S \in fits : Cardinality(S) = n
            /\ \A S \in fits : Cardinality(S) <= n

\* The relevance of every title among the discovered summaries
TitleRelevance ==
    {<<t, NonOverlapping(t)>> : t \in {allDocuments[i].title : i \in 1..Len(allDocuments)}}

RelevanceOf(pairs, t) == (CHOOSE p \in pairs : p[1] = t)[2]

\* The discovered summaries of relevance r, in discovery order, as the
\* response shows them
Level(pairs, r) ==
    LET docs == SelectSeq(allDocuments, LAMBDA d : RelevanceOf(pairs, d.title) = r)
    IN  [k \in 1..Len(docs) |->
            [title |-> docs[k].title, url |-> docs[k].url, type |-> docs[k].type,
             relative_url |-> docs[k].relative_url, relevance |-> r]]

IsPrefix(s, t) == Len(s) <= Len(t) /\ SubSeq(t, 1, Len(s)) = s

\* C6: the search returns exactly the discovered summaries whose title
\* contains the query ignoring case, each with the number of non-overlapping
\* occurrences as relevance, by relevance descending, equal relevance in
\* discovery order, cut to the first 100.  That is: the response is sorted;
\* at each relevance it shows a prefix of the discovered summaries of that
\* relevance; it shows 100 or all of them; and a summary is left out only
\* when 100 are shown and none of lower relevance is among them.
SearchRankedStableCapped ==
    (srchPc = "responded" /\ searchResponse.status = 200) =>
        LET res    == searchResponse.documents
            pairs  == TitleRelevance
            levels == {p[2] : p \in pairs} \ {0}
            shown(r) == SelectSeq(res, LAMBDA d : d.relevance = r)
            nhits  == Cardinality({i \in 1..Len(allDocuments) :
                                      RelevanceOf(pairs, allDocuments[i].title) >= 1})
        IN  /\ Len(res) = Min(100, nhits)
            /\ \A k \in 1..Len(res) : res[k].relevance \in levels
            /\ \A k \in 1..(Len(res) - 1) : res[k].relevance >= res[k + 1].relevance
            /\ \A r \in levels :
                  /\ IsPrefix(shown(r), Level(pairs, r))
                  /\ Len(shown(r)) < Len(Level(pairs, r)) =>
                        /\ Len(res) = 100
                        /\ \A q \in levels : q < r => shown(q) = <<>>

\* C6 witness: more than 100 matching summaries from several sources, with
\* different relevances and with ties, answered with the first 100.
SearchTruncated ==
    /\ srchPc = "responded" /\ searchResponse.status = 200
    /\ searchResponse.total > 100
    /\ Len(searchResponse.documents) = 100
    /\ searchResponse.documents[1].relevance > searchResponse.documents[100].relevance
    /\ searchResponse.documents[1].relevance = searchResponse.documents[2].relevance
    /\ Len(allDocuments) > searchResponse.total

(***************************************************************************)
(* The /api/document handler, MegaNormAPI.get_document_details and         *)
(* get_page.  A url is a sequence of tokens; calls is the history of the   *)
(* calls get_page made: "get_ok" for a session.get with raise_for_status   *)
(* that passed, "get_fail" for one that raised a RequestException,         *)
(* "get_error" for one that raised anything else, "sleep" for              *)
(* time.sleep(2).                                                          *)
(***************************************************************************)
Retries == 3

\* 'https://meganorm.ru'
Origin == <<"https:", "//", "meganorm", ".", "ru">>

\* s.startswith(prefix)
StartsWith(s, prefix) == Len(s) >= Len(prefix) /\ SubSeq(s, 1, Len(prefix)) = prefix

\* Line 379
UrlAccepted(u) == StartsWith(u, Origin)

\* An except clause that lets everything but the fetch error through
CatchesRequestErrorsOnly(exc) == exc = "RequestException"

\* Line 185: except Exception
Catches(exc) == TRUE

\* attempt == retries, one too far
IsAfterLastAttempt(a) == a = Retries

\* Line 29: attempt == retries - 1
IsLastAttempt(a) == a = Retries - 1

\* Lines 172-174, after the parse at line 169
ExtractSteps ==
    <<"BeautifulSoup", "extract_title", "extract_content_sections", "extract_metadata">>

\* Lines 176-183
SuccessRecord(u) ==
    [title |-> "title", sections |-> "content_sections", metadata |-> "metadata",
     url |-> u, parsed_at |-> "now", status |-> "success"]

\* Lines 186-191
ErrorRecord(u, exc) ==
    [error |-> exc, url |-> u, status |-> "error", parsed_at |-> "now"]

\* The urls requested
Urls ==
    {<<>>,
     Origin,
     Origin \o <<"/", "mega_doc", "/", "d1.html">>,
     Origin \o <<".", "other", ".", "example", "/", "x">>,
     Origin \o <<"X", "/", "y">>,
     Origin \o <<":", "8443", "/", "x">>,
     Origin \o <<"@", "other", ".", "example", "/", "x">>,
     <<"https:", "//", "other-origin", ".", "example", "/", "x">>,
     <<"http:", "//", "meganorm", ".", "ru", "/", "mega_doc", "/", "d1.html">>}

ReqInit ==
    /\ docUrl \in Urls
    /\ attempt = 0 /\ calls = <<>> /\ pageResult = "none"
    /\ step = 0 /\ failedStep = 0 /\ detail = [status |-> "none"]
    /\ httpStatus = 0 /\ reqPc = "request"
    /\ CleanIdle /\ SecIdle /\ LstIdle /\ SrchIdle

\* Lines 371-383: no url, or a url that fails the startswith test
RouteRejects ==
    /\ reqPc = "request"
    /\ docUrl = <<>> \/ ~UrlAccepted(docUrl)
    /\ httpStatus' = 400
    /\ reqPc' = "responded"
    /\ UNCHANGED <<docUrl, attempt, calls, pageResult, step, failedStep, detail,
                   cleanVars, secVars, lstVars, srchVars>>

\* Line 385, into line 168: get_page starts with attempt 0
RouteAccepts ==
    /\ reqPc = "request"
    /\ docUrl # <<>> /\ UrlAccepted(docUrl)
    /\ attempt' = 0
    /\ reqPc' = "attempt"
    /\ UNCHANGED <<docUrl, calls, pageResult, step, failedStep, detail, httpStatus,
                   cleanVars, secVars, lstVars, srchVars>>

\* Lines 24-27: the attempt succeeds and get_page returns the response
GetSucceeds ==
    /\ reqPc = "attempt"
    /\ calls' = Append(calls, "get_ok")
    /\ pageResult' = "response"
    /\ step' = 1
    /\ reqPc' = "extract"
    /\ UNCHANGED <<docUrl, attempt, failedStep, detail, httpStatus,
                   cleanVars, secVars, lstVars, srchVars>>

\* Lines 28-31: the attempt fails with a RequestException; the last attempt
\* raises it, into the handler at lines 185-191, any other goes to sleep
GetFails ==
    /\ reqPc = "attempt"
    /\ calls' = Append(calls, "get_fail")
    /\ IF IsLastAttempt(attempt)
       THEN /\ pageResult' = "raised"
            /\ IF Catches("RequestException")
               THEN /\ detail' = ErrorRecord(docUrl, "RequestException")
                    /\ reqPc' = "returned"
               ELSE /\ detail' = detail
                    /\ reqPc' = "propagated"
       ELSE /\ reqPc' = "sleeping"
            /\ UNCHANGED <<pageResult, detail>>
    /\ UNCHANGED <<docUrl, attempt, step, failedStep, httpStatus,
                   cleanVars, secVars, lstVars, srchVars>>

\* Line 28 catches RequestException only: any other exception of the
\* attempt leaves get_page at once, into the handler at lines 185-191
GetRaisesOther ==
    /\ reqPc = "attempt"
    /\ calls' = Append(calls, "get_error")
    /\ pageResult' = "raised"
    /\ IF Catches("Exception")
       THEN detail' = ErrorRecord(docUrl, "Exception") /\ reqPc' = "returned"
       ELSE detail' = detail /\ reqPc' = "propagated"
    /\ UNCHANGED <<docUrl, attempt, step, failedStep, httpStatus,
                   cleanVars, secVars, lstVars, srchVars>>

\* Line 31, then the next turn of the loop at line 22; a loop that ran out
\* would make get_page return None
Sleep ==
    /\ reqPc = "sleeping"
    /\ calls' = Append(calls, "sleep")
    /\ attempt' = attempt + 1
    /\ IF attempt + 1 < Retries
       THEN reqPc' = "attempt" /\ UNCHANGED <<pageResult, failedStep, detail>>
       ELSE /\ pageResult' = "None"
            /\ failedStep' = 1
            /\ IF Catches("AttributeError")
               THEN detail' = ErrorRecord(docUrl, "AttributeError") /\ reqPc' = "returned"
               ELSE detail' = detail /\ reqPc' = "propagated"
    /\ UNCHANGED <<docUrl, step, httpStatus, cleanVars, secVars, lstVars, srchVars>>

\* Lines 169-174: the step at hand completes
StepCompletes ==
    /\ reqPc = "extract" /\ step <= Len(ExtractSteps)
    /\ step' = step + 1
    /\ UNCHANGED <<docUrl, attempt, calls, pageResult, failedStep, detail, httpStatus, reqPc,
                   cleanVars, secVars, lstVars, srchVars>>

\* Lines 169-174: the step at hand raises; lines 185-191 catch it
StepRaises ==
    /\ reqPc = "extract" /\ step <= Len(ExtractSteps)
    /\ failedStep' = step
    /\ IF Catches("Exception")
       THEN detail' = ErrorRecord(docUrl, "Exception") /\ reqPc' = "returned"
       ELSE detail' = detail /\ reqPc' = "propagated"
    /\ UNCHANGED <<docUrl, attempt, calls, pageResult, step, httpStatus,
                   cleanVars, secVars, lstVars, srchVars>>

\* Lines 176-183
ReturnSuccess ==
    /\ reqPc = "extract" /\ step > Len(ExtractSteps)
    /\ detail' = SuccessRecord(docUrl)
    /\ reqPc' = "returned"
    /\ UNCHANGED <<docUrl, attempt, calls, pageResult, step, failedStep, httpStatus,
                   cleanVars, secVars, lstVars, srchVars>>

\* Lines 388-398: 500 for an error record or an exception, else 200
RouteResponds ==
    /\ reqPc \in {"returned", "propagated"}
    /\ httpStatus' = IF reqPc = "propagated" \/ detail.status = "error" THEN 500 ELSE 200
    /\ reqPc' = "responded"
    /\ UNCHANGED <<docUrl, attempt, calls, pageResult, step, failedStep, detail,
                   cleanVars, secVars, lstVars, srchVars>>

ReqNext ==
    \/ RouteRejects \/ RouteAccepts
    \/ GetSucceeds \/ GetFails \/ GetRaisesOther \/ Sleep
    \/ StepCompletes \/ StepRaises \/ ReturnSuccess
    \/ RouteResponds

\* The handler runs on one thread and blocks: each call returns (the get
\* after at most its timeout, the sleep after its delay) and the next
\* statement runs.
ReqSpec == ReqInit /\ [][ReqNext]_vars /\ WF_vars(ReqNext)

NumberOf(c) == Cardinality({i \in 1..Len(calls) : calls[i] = c})
Gets == NumberOf("get_ok") + NumberOf("get_fail") + NumberOf("get_error")

\* The url has the origin https://meganorm.ru: after the origin comes
\* nothing, or a path, a query or a fragment.
SameOrigin(u) ==
    /\ StartsWith(u, Origin)
    /\ Len(u) > Len(Origin) => u[Len(Origin) + 1] \in {"/", "?", "#"}

\* C7: a url whose origin is not https://meganorm.ru is rejected with 400
\* and no fetch is issued for it.
RejectsForeignOrigin ==
    ~SameOrigin(docUrl) =>
        /\ Gets = 0
        /\ reqPc = "responded" => httpStatus = 400

\* C8: get_document_details never raises; it returns the error record
\* (status, error, url, parsed_at and no title, sections or metadata) when
\* the fetch failed after its retries or a step raised, and the success
\* record (title, sections, metadata, url, parsed_at) only when the fetch
\* and every step completed.
DetailTotal ==
    /\ reqPc # "propagated"
    /\ reqPc \in {"returned", "responded"} /\ httpStatus # 400 =>
          LET failed == pageResult # "response" \/ failedStep # 0
          IN  /\ detail.url = docUrl
              /\ failed =>
                    /\ detail.status = "error"
                    /\ DOMAIN detail = {"error", "url", "status", "parsed_at"}
              /\ ~failed =>
                    /\ detail.status = "success"
                    /\ step = Len(ExtractSteps) + 1
                    /\ DOMAIN detail =
                          {"title", "sections", "metadata", "url", "parsed_at", "status"}

\* C8 witness: extract_metadata, the last step, raised after a successful
\* fetch, and the call returned the error record.
MetadataRaisedCaught ==
    /\ reqPc = "returned"
    /\ pageResult = "response" /\ failedStep = Len(ExtractSteps)
    /\ detail.status = "error"

\* What get_page may have called so far: gets one after another, a sleep
\* after each failed get but the 3rd, nothing after a get that succeeded
\* or raised out of get_page.
CallsInOrder ==
    /\ Gets <= 3
    /\ NumberOf("sleep") <= 2
    /\ \A i \in 1..Len(calls) :
          /\ calls[i] = "sleep" => (i > 1 /\ calls[i - 1] = "get_fail")
          /\ (calls[i] # "sleep" /\ i > 1) => calls[i - 1] = "sleep"
          /\ calls[i] \in {"get_ok", "get_error"} => i = Len(calls)
    /\ pageResult = "response" => calls[Len(calls)] = "get_ok"
    /\ pageResult = "raised" =>
          \/ calls = <<"get_fail", "sleep", "get_fail", "sleep", "get_fail">>
          \/ calls[Len(calls)] = "get_error"
    /\ pageResult \in {"none", "response", "raised"}
    /\ reqPc = "sleeping" => (calls # <<>> /\ calls[Len(calls)] = "get_fail")
    /\ reqPc = "attempt" => (calls = <<>> \/ calls[Len(calls)] = "sleep")
    /\ (calls # <<>> /\ calls[Len(calls)] = "get_fail") =>
          (reqPc = "sleeping" <=> Len(calls) < 5)

\* C9: one get_page call makes at most 3 attempts, one after another,
\* returns at the first success, sleeps once after each failure but the
\* 3rd, raises after the 3rd without sleeping, and always ends with a
\* response or the error.
GetPageRetriesAndEnds ==
    /\ []CallsInOrder
    /\ (reqPc \in {"attempt", "sleeping"}) ~> (pageResult \in {"response", "raised"})

\* C9 witness: three failed attempts with two sleeps between them, and the
\* error raised.
ThreeFailuresRaised ==
    /\ pageResult = "raised"
    /\ calls = <<"get_fail", "sleep", "get_fail", "sleep", "get_fail">>

====
